---- MODULE Spec2Model ----
(***************************************************************************)
(* A model of src-tauri/src/lib.rs of MemoMarket: the config store, the    *)
(* pack store, the installed-list store and the MemoChat interop commands. *)
(*                                                                         *)
(* The disk is the only state.  A file's text is either the pretty-printed *)
(* form of a JSON value, possibly followed by left-over bytes of an older  *)
(* longer text ([json |-> v, tail |-> n]), or text that is not JSON        *)
(* ([raw |-> s], the empty file being [raw |-> ""]).  JSON values are      *)
(* tagged: [str |-> s], [bool |-> b], [arr |-> seq], [obj |-> f],          *)
(* [null |-> TRUE].  Serialisation (serde Serialize) maps a struct to a    *)
(* JSON object, deserialisation (serde Deserialize) checks and maps back.  *)
(***************************************************************************)
EXTENDS Integers, Sequences, FiniteSets, TLC

VARIABLES
    dirs,           \* the directories that exist: subset of {"config", "packs"}
    configFile,     \* <config_root>/config.json: a text or Absent
    installedFile,  \* <config_root>/installed.json: a text or Absent
    packsDir,       \* <config_root>/packs: function file name -> text
    companionFile,  \* <sibling>/com.memochat.app/memo-pack.json: a text or Absent
    ret,            \* the last command invoked, its arguments and its result
    lastInstalled,  \* history: the ids of the most recent successful save_installed
    procs,          \* concurrent commands in flight: process -> its position and locals
    input           \* the argument of the pure commands under check

vars == <<dirs, configFile, installedFile, packsDir, companionFile, ret,
          lastInstalled, procs, input>>

-----------------------------------------------------------------------------
(* Bounds *)

MaxRules == 2        \* longest rules / memos / tags / external array drawn
MaxInstalled == 2    \* longest id list given to save_installed
MaxClock == 2        \* number of clock instants the imports can observe

-----------------------------------------------------------------------------
(* JSON values and texts *)

JStr(s) == [str |-> s]
JBool(b) == [bool |-> b]
JArr(q) == [arr |-> q]
JObj(f) == [obj |-> f]
JNull == [null |-> TRUE]

IsStr(v) == "str" \in DOMAIN v
IsBool(v) == "bool" \in DOMAIN v
IsArr(v) == "arr" \in DOMAIN v
IsObj(v) == "obj" \in DOMAIN v

Absent == [absent |-> TRUE]
EmptyText == [raw |-> ""]

\* serde_json::to_string_pretty: the text of a value, nothing after it
to_string_pretty(v) == [json |-> v, tail |-> 0]

\* serde_json::from_str::<Value>: fails on text that is not JSON and on
\* characters trailing the value
from_str(t) ==
    IF "json" \in DOMAIN t /\ t.tail = 0
    THEN [ok |-> TRUE, val |-> t.json]
    ELSE [ok |-> FALSE]

\* Index of serde_json::Value by a key: Null unless an object holding the key
Index(v, k) ==
    IF IsObj(v) /\ k \in DOMAIN v.obj THEN v.obj[k] ELSE JNull

RECURSIVE SelectOk(_)
\* the .val of the elements of q that are ok, in order
SelectOk(q) ==
    IF q = <<>> THEN <<>>
    ELSE IF Head(q).ok THEN <<Head(q).val>> \o SelectOk(Tail(q))
         ELSE SelectOk(Tail(q))

AllOk(q) == \A i \in 1..Len(q) : q[i].ok

-----------------------------------------------------------------------------
(* The structs and their derived Serialize / Deserialize.  A struct is     *)
(* written as a JSON object of all its fields; it is read from a JSON      *)
(* object, unknown keys ignored, a missing or ill-typed required field an  *)
(* error, a missing #[serde(default)] field its default.  (serde also      *)
(* reads a struct from a JSON array of its fields in order; no text drawn  *)
(* below is such an array.)                                                *)

DefaultConfig ==
    [api_key |-> "", model_id |-> "", base_url |-> "",
     reasoning_enabled |-> FALSE, channels_json |-> ""]

SerConfig(c) ==
    JObj([api_key |-> JStr(c.api_key), model_id |-> JStr(c.model_id),
          base_url |-> JStr(c.base_url),
          reasoning_enabled |-> JBool(c.reasoning_enabled),
          channels_json |-> JStr(c.channels_json)])

\* a required String field: present and a string
HasStr(v, k) == k \in DOMAIN v.obj /\ IsStr(v.obj[k])
\* a #[serde(default)] field: absent, or present with the right type
OptStr(v, k) == k \in DOMAIN v.obj => IsStr(v.obj[k])
OptBool(v, k) == k \in DOMAIN v.obj => IsBool(v.obj[k])
StrOr(v, k) == IF k \in DOMAIN v.obj THEN v.obj[k].str ELSE ""

DeConfig(v) ==
    IF /\ IsObj(v)
       /\ HasStr(v, "api_key") /\ HasStr(v, "model_id") /\ HasStr(v, "base_url")
       /\ OptBool(v, "reasoning_enabled") /\ OptStr(v, "channels_json")
    THEN [ok |-> TRUE,
          val |-> [api_key |-> v.obj.api_key.str,
                   model_id |-> v.obj.model_id.str,
                   base_url |-> v.obj.base_url.str,
                   reasoning_enabled |->
                       IF "reasoning_enabled" \in DOMAIN v.obj
                       THEN v.obj.reasoning_enabled.bool ELSE FALSE,
                   channels_json |-> StrOr(v, "channels_json")]]
    ELSE [ok |-> FALSE]

\* MemoRule, were it to serialize under the key export_for_memochat uses
SerMemoRuleCamel(r) ==
    JObj([title |-> JStr(r.title), updateRule |-> JStr(r.update_rule)])

SerMemoRule(r) ==
    JObj([title |-> JStr(r.title), update_rule |-> JStr(r.update_rule)])

DeMemoRule(v) ==
    IF IsObj(v) /\ HasStr(v, "title") /\ HasStr(v, "update_rule")
    THEN [ok |-> TRUE,
          val |-> [title |-> v.obj.title.str,
                   update_rule |-> v.obj.update_rule.str]]
    ELSE [ok |-> FALSE]

SerMemo(m) ==
    JObj([title |-> JStr(m.title), content |-> JStr(m.content)])

DeMemo(v) ==
    IF IsObj(v) /\ HasStr(v, "title") /\ HasStr(v, "content")
    THEN [ok |-> TRUE,
          val |-> [title |-> v.obj.title.str, content |-> v.obj.content.str]]
    ELSE [ok |-> FALSE]

\* Vec<String>
SerStrings(q) == JArr([i \in 1..Len(q) |-> JStr(q[i])])

DeStrings(v) ==
    IF IsArr(v) /\ \A i \in 1..Len(v.arr) : IsStr(v.arr[i])
    THEN [ok |-> TRUE, val |-> [i \in 1..Len(v.arr) |-> v.arr[i].str]]
    ELSE [ok |-> FALSE]

\* Vec<MemoRule>: every element must deserialize
DeMemoRules(v) ==
    IF IsArr(v) /\ AllOk([i \in 1..Len(v.arr) |-> DeMemoRule(v.arr[i])])
    THEN [ok |-> TRUE,
          val |-> SelectOk([i \in 1..Len(v.arr) |-> DeMemoRule(v.arr[i])])]
    ELSE [ok |-> FALSE]

\* Vec<Memo>: every element must deserialize
DeMemos(v) ==
    IF IsArr(v) /\ AllOk([i \in 1..Len(v.arr) |-> DeMemo(v.arr[i])])
    THEN [ok |-> TRUE,
          val |-> SelectOk([i \in 1..Len(v.arr) |-> DeMemo(v.arr[i])])]
    ELSE [ok |-> FALSE]

SerRulePack(p) ==
    JObj([id |-> JStr(p.id), name |-> JStr(p.name),
          description |-> JStr(p.description), author |-> JStr(p.author),
          version |-> JStr(p.version), system_prompt |-> JStr(p.system_prompt),
          rules |-> JArr([i \in 1..Len(p.rules) |-> SerMemoRule(p.rules[i])]),
          memos |-> JArr([i \in 1..Len(p.memos) |-> SerMemo(p.memos[i])]),
          tags |-> SerStrings(p.tags),
          created_at |-> JStr(p.created_at),
          updated_at |-> JStr(p.updated_at)])

DeRulePack(v) ==
    IF /\ IsObj(v)
       /\ HasStr(v, "id") /\ HasStr(v, "name") /\ HasStr(v, "description")
       /\ HasStr(v, "author") /\ HasStr(v, "version")
       /\ HasStr(v, "system_prompt")
       /\ "rules" \in DOMAIN v.obj /\ DeMemoRules(v.obj.rules).ok
       /\ ("memos" \in DOMAIN v.obj => DeMemos(v.obj.memos).ok)
       /\ ("tags" \in DOMAIN v.obj => DeStrings(v.obj.tags).ok)
       /\ OptStr(v, "created_at") /\ OptStr(v, "updated_at")
    THEN [ok |-> TRUE,
          val |-> [id |-> v.obj.id.str, name |-> v.obj.name.str,
                   description |-> v.obj.description.str,
                   author |-> v.obj.author.str,
                   version |-> v.obj.version.str,
                   system_prompt |-> v.obj.system_prompt.str,
                   rules |-> DeMemoRules(v.obj.rules).val,
                   memos |-> IF "memos" \in DOMAIN v.obj
                             THEN DeMemos(v.obj.memos).val ELSE <<>>,
                   tags |-> IF "tags" \in DOMAIN v.obj
                            THEN DeStrings(v.obj.tags).val ELSE <<>>,
                   created_at |-> StrOr(v, "created_at"),
                   updated_at |-> StrOr(v, "updated_at")]]
    ELSE [ok |-> FALSE]

\* serde_json::from_str::<RulePack>(text): parse the text, then deserialize
from_str_RulePack(t) ==
    IF from_str(t).ok THEN DeRulePack(from_str(t).val) ELSE [ok |-> FALSE]

\* serde_json::from_str::<Config>(text)
from_str_Config(t) ==
    IF from_str(t).ok THEN DeConfig(from_str(t).val) ELSE [ok |-> FALSE]

\* serde_json::from_str::<Vec<String>>(text)
from_str_Strings(t) ==
    IF from_str(t).ok THEN DeStrings(from_str(t).val) ELSE [ok |-> FALSE]

-----------------------------------------------------------------------------
(* Strings: Rust compares Strings byte by byte *)

Byte ==
    ("-" :> 45 @@ "0" :> 48 @@ "1" :> 49 @@ "2" :> 50 @@ "3" :> 51 @@
     "4" :> 52 @@ "5" :> 53 @@ "6" :> 54 @@ "7" :> 55 @@ "8" :> 56 @@
     "9" :> 57 @@ ":" :> 58 @@ "T" :> 84)

RECURSIVE StrCmp(_, _)
\* Ord::cmp on two strings: -1 (Less), 0 (Equal), 1 (Greater)
StrCmp(a, b) ==
    IF a = "" THEN (IF b = "" THEN 0 ELSE -1)
    ELSE IF b = "" THEN 1
    ELSE IF Byte[Head(a)] < Byte[Head(b)] THEN -1
    ELSE IF Byte[Head(a)] > Byte[Head(b)] THEN 1
    ELSE StrCmp(Tail(a), Tail(b))

RECURSIVE LastDot(_)
\* position of the last "." of a file name, 0 when there is none
LastDot(name) ==
    IF name = "" THEN 0
    ELSE IF SubSeq(name, Len(name), Len(name)) = "." THEN Len(name)
    ELSE LastDot(SubSeq(name, 1, Len(name) - 1))

\* entry.path().extension().map_or(false, |e| e == "json"); a name whose only
\* dot is its first character has no extension
HasJsonExtension(name) ==
    LastDot(name) > 1 /\ SubSeq(name, LastDot(name) + 1, Len(name)) = "json"

\* dir.join(format!("{}.json", id))
PackPath(id) == id \o ".json"

-----------------------------------------------------------------------------
(* The file system *)

\* std::fs::write is File::create (create or truncate) and then write_all.
\* It can succeed ("ok"), fail to open the file ("denied": nothing changes)
\* or fail while writing ("short": the file is left created and empty).
WriteOutcomes == {"ok", "denied", "short"}

fs_write(file, text, outcome) ==
    CASE outcome = "ok" -> text
      [] outcome = "short" -> EmptyText
      [] OTHER -> file

\* what reading a path as a RulePack gives: nothing when there is no file
ReadRulePack(file) ==
    IF file = Absent THEN [ok |-> FALSE] ELSE from_str_RulePack(file)

\* the file of a directory under a name, Absent when there is none
FileAt(dir, name) == IF name \in DOMAIN dir THEN dir[name] ELSE Absent

\* a directory with the file under name replaced (removed when Absent)
WithFile(dir, name, file) ==
    IF file = Absent
    THEN [n \in DOMAIN dir \ {name} |-> dir[n]]
    ELSE [n \in DOMAIN dir \cup {name} |-> IF n = name THEN file ELSE dir[n]]

RECURSIVE Perms(_)
\* the orders in which fs::read_dir can enumerate a set of names
Perms(S) ==
    IF S = {} THEN {<<>>}
    ELSE UNION {{<<x>> \o q : q \in Perms(S \ {x})} : x \in S}

-----------------------------------------------------------------------------
(* The values the commands are invoked with, and the disks they start on *)

Stamps == {"", "2024-01-01", "2024-01-02"}

Rule1 == [title |-> "T", update_rule |-> "U"]
Rule2 == [title |-> "", update_rule |-> "U2"]
Memo1 == [title |-> "M", content |-> ""]

\* the pack of an id as of a timestamp: its other fields differ with it
MkPack(id, stamp) ==
    [id |-> id, name |-> IF stamp = "" THEN "" ELSE "N" \o stamp,
     description |-> "", author |-> "",
     version |-> "1.0.0", system_prompt |-> "S",
     rules |-> IF stamp = "2024-01-02" THEN <<Rule1, Rule2>> ELSE <<Rule1>>,
     memos |-> IF stamp = "" THEN <<>> ELSE <<Memo1>>,
     tags |-> <<"t">>, created_at |-> "2024-01-01", updated_at |-> stamp]

\* the packs given to save_pack in the pack store's specification
StorePacks == {MkPack(id, st) : id \in {"p1", "p2", "p3"}, st \in Stamps}

\* the ids given to delete_pack: the pack ids and the stem of broken.json
DeleteIds == {"p1", "p2", "p3", "broken"}

\* the packs and ids given to save_pack and delete_pack in the settings'
\* specification
FewPacks == {MkPack("p1", "")}
FewIds == {"p1", "gone"}

Config1 ==
    [api_key |-> "k", model_id |-> "m", base_url |-> "u",
     reasoning_enabled |-> TRUE, channels_json |-> "[]"]

\* the configs given to save_config
ConfigInputs == {Config1, DefaultConfig}

\* config.json as a user or an older version can have left it
ForeignConfigs ==
    {[raw |-> "not json"],
     to_string_pretty(JObj([api_key |-> JStr("x")])),
     to_string_pretty(JObj([api_key |-> JStr("x"), model_id |-> JStr("y"),
                            base_url |-> JStr("z")])),
     to_string_pretty(JObj([api_key |-> JStr("x"), model_id |-> JStr("y"),
                            base_url |-> JStr("z"),
                            reasoning_enabled |-> JStr("yes")]))}

InstalledIds == {"p1", "gone"}

\* sequences over S of length at most n
SeqsUpTo(S, n) == UNION {[1..k -> S] : k \in 0..n}

\* the id lists given to save_installed
InstalledInputs == SeqsUpTo(InstalledIds, MaxInstalled)

\* files of the packs directory that no save_pack wrote: a pack under another
\* extension, and a .json file that holds JSON but no RulePack
ForeignFiles ==
    [n \in {"notes.txt", "broken.json"} |->
        IF n = "notes.txt"
        THEN to_string_pretty(SerRulePack(MkPack("notes", "2024-01-02")))
        ELSE to_string_pretty(JObj([id |-> JStr("broken"), name |-> JStr("A")]))]

NoFiles == [n \in {} |-> Absent]
NoProcs == [n \in {} |-> Absent]
NoInput == [none |-> TRUE]
NoRet == [op |-> "none"]

-----------------------------------------------------------------------------
(* The store commands *)

\* get_config_path / get_installed_path: fs::create_dir_all(&config_dir)
get_config_path == dirs \cup {"config"}

\* get_packs_dir: fs::create_dir_all(&packs) creates the root as well
get_packs_dir == dirs \cup {"config", "packs"}

\* load_config, were it to default the missing fields one by one
load_config_partial(file) ==
    IF from_str(file).ok /\ IsObj(from_str(file).val)
    THEN [api_key |-> StrOr(from_str(file).val, "api_key"),
          model_id |-> StrOr(from_str(file).val, "model_id"),
          base_url |-> StrOr(from_str(file).val, "base_url"),
          reasoning_enabled |-> FALSE,
          channels_json |-> StrOr(from_str(file).val, "channels_json")]
    ELSE DefaultConfig

load_config(file) ==
    IF file # Absent
    THEN IF from_str_Config(file).ok THEN from_str_Config(file).val
         ELSE DefaultConfig
    ELSE DefaultConfig

LoadConfig ==
    /\ dirs' = get_config_path
    /\ ret' = [op |-> "load_config", out |-> load_config(configFile)]
    /\ UNCHANGED <<configFile, installedFile, packsDir, companionFile,
                   lastInstalled, procs, input>>

SaveConfig ==
    \E c \in ConfigInputs, outcome \in WriteOutcomes :
        /\ dirs' = get_config_path
        /\ configFile' =
               fs_write(configFile, to_string_pretty(SerConfig(c)), outcome)
        /\ ret' = [op |-> "save_config", config |-> c, out |-> outcome = "ok"]
        /\ UNCHANGED <<installedFile, packsDir, companionFile, lastInstalled,
                       procs, input>>

\* ReadEntry, were it not to look at the extension
ReadEntryAnyExtension(dir, name) == from_str_RulePack(dir[name])

\* one iteration of the loop of load_packs over a directory entry
ReadEntry(dir, name) ==
    IF HasJsonExtension(name) THEN from_str_RulePack(dir[name])
    ELSE [ok |-> FALSE]

\* the vector packs when the loop of load_packs ends, the entries having
\* been enumerated in the given order
CollectPacks(dir, order) ==
    SelectOk([i \in 1..Len(order) |-> ReadEntry(dir, order[i])])

\* the comparator, were it to compare a with b
ByUpdatedAsc(a, b) == StrCmp(a.updated_at, b.updated_at)

\* the comparator of load_packs: |a, b| b.updated_at.cmp(&a.updated_at)
ByUpdatedDesc(a, b) == StrCmp(b.updated_at, a.updated_at)

RECURSIVE InsertStable(_, _)
\* x, which came after every element of the sorted q, put behind the last
\* element that does not compare greater than it
InsertStable(q, x) ==
    IF q = <<>> THEN <<x>>
    ELSE IF ByUpdatedDesc(q[Len(q)], x) <= 0 THEN Append(q, x)
    ELSE Append(InsertStable(SubSeq(q, 1, Len(q) - 1), x), q[Len(q)])

RECURSIVE sort_by(_)
\* slice::sort_by, a stable sort, under ByUpdatedDesc
sort_by(q) ==
    IF q = <<>> THEN <<>>
    ELSE InsertStable(sort_by(SubSeq(q, 1, Len(q) - 1)), q[Len(q)])

load_packs(dir, order) == sort_by(CollectPacks(dir, order))

LoadPacks ==
    \E order \in Perms(DOMAIN packsDir) :
        /\ dirs' = get_packs_dir
        /\ ret' = [op |-> "load_packs",
                   parsed |-> CollectPacks(packsDir, order),
                   out |-> load_packs(packsDir, order)]
        /\ UNCHANGED <<configFile, installedFile, packsDir, companionFile,
                       lastInstalled, procs, input>>

\* save_pack, were it to keep the memos of the pack it overwrites
SavePackMerging(packs) ==
    \E pack \in packs, outcome \in WriteOutcomes :
        LET old == ReadRulePack(FileAt(packsDir, PackPath(pack.id)))
            merged == IF old.ok THEN [pack EXCEPT !.memos = old.val.memos]
                      ELSE pack
        IN
        /\ dirs' = get_packs_dir
        /\ packsDir' =
               WithFile(packsDir, PackPath(pack.id),
                        fs_write(FileAt(packsDir, PackPath(pack.id)),
                                 to_string_pretty(SerRulePack(merged)),
                                 outcome))
        /\ ret' = [op |-> "save_pack", pack |-> pack, out |-> outcome = "ok",
                   existed |-> PackPath(pack.id) \in DOMAIN packsDir]
        /\ UNCHANGED <<configFile, installedFile, companionFile,
                       lastInstalled, procs, input>>

\* ret.existed is history: whether the path held a file before the call
SavePack(packs) ==
    \E pack \in packs, outcome \in WriteOutcomes :
        /\ dirs' = get_packs_dir
        /\ packsDir' =
               WithFile(packsDir, PackPath(pack.id),
                        fs_write(FileAt(packsDir, PackPath(pack.id)),
                                 to_string_pretty(SerRulePack(pack)), outcome))
        /\ ret' = [op |-> "save_pack", pack |-> pack, out |-> outcome = "ok",
                   existed |-> PackPath(pack.id) \in DOMAIN packsDir]
        /\ UNCHANGED <<configFile, installedFile, companionFile,
                       lastInstalled, procs, input>>

\* delete_pack, were it to report success for a file that is not there
DeletePackAbsentTrue(ids) ==
    \E id \in ids, removed \in BOOLEAN :
        /\ dirs' = get_packs_dir
        /\ IF PackPath(id) \in DOMAIN packsDir
           THEN /\ packsDir' = IF removed
                               THEN WithFile(packsDir, PackPath(id), Absent)
                               ELSE packsDir
                /\ ret' = [op |-> "delete_pack", id |-> id, out |-> removed]
           ELSE /\ packsDir' = packsDir
                /\ ret' = [op |-> "delete_pack", id |-> id, out |-> TRUE]
        /\ UNCHANGED <<configFile, installedFile, companionFile,
                       lastInstalled, procs, input>>

\* fs::remove_file(path).is_ok(): the removal itself can fail
DeletePack(ids) ==
    \E id \in ids, removed \in BOOLEAN :
        /\ dirs' = get_packs_dir
        /\ IF PackPath(id) \in DOMAIN packsDir
           THEN /\ packsDir' = IF removed
                               THEN WithFile(packsDir, PackPath(id), Absent)
                               ELSE packsDir
                /\ ret' = [op |-> "delete_pack", id |-> id, out |-> removed]
           ELSE /\ packsDir' = packsDir
                /\ ret' = [op |-> "delete_pack", id |-> id, out |-> FALSE]
        /\ UNCHANGED <<configFile, installedFile, companionFile,
                       lastInstalled, procs, input>>

load_installed(file) ==
    IF file # Absent
    THEN IF from_str_Strings(file).ok THEN from_str_Strings(file).val
         ELSE <<>>
    ELSE <<>>

LoadInstalled ==
    /\ dirs' = get_config_path
    /\ ret' = [op |-> "load_installed", out |-> load_installed(installedFile)]
    /\ UNCHANGED <<configFile, installedFile, packsDir, companionFile,
                   lastInstalled, procs, input>>

RECURSIVE Dedup(_)
\* q without the later occurrences of its elements
Dedup(q) ==
    IF q = <<>> THEN <<>>
    ELSE LET front == Dedup(SubSeq(q, 1, Len(q) - 1))
         IN IF \E i \in 1..Len(front) : front[i] = q[Len(q)]
            THEN front ELSE Append(front, q[Len(q)])

\* save_installed, were it to store each id once
SaveInstalledDedup ==
    \E ids \in InstalledInputs, outcome \in WriteOutcomes :
        /\ dirs' = get_config_path
        /\ installedFile' =
               fs_write(installedFile,
                        to_string_pretty(SerStrings(Dedup(ids))), outcome)
        /\ lastInstalled' = IF outcome = "ok" THEN <<ids>> ELSE lastInstalled
        /\ ret' = [op |-> "save_installed", ids |-> ids,
                   out |-> outcome = "ok"]
        /\ UNCHANGED <<configFile, packsDir, companionFile, procs, input>>

SaveInstalled ==
    \E ids \in InstalledInputs, outcome \in WriteOutcomes :
        /\ dirs' = get_config_path
        /\ installedFile' =
               fs_write(installedFile, to_string_pretty(SerStrings(ids)),
                        outcome)
        /\ lastInstalled' = IF outcome = "ok" THEN <<ids>> ELSE lastInstalled
        /\ ret' = [op |-> "save_installed", ids |-> ids,
                   out |-> outcome = "ok"]
        /\ UNCHANGED <<configFile, packsDir, companionFile, procs, input>>

-----------------------------------------------------------------------------
(* The pack store: load_packs, save_pack and delete_pack, from a fresh      *)
(* installation or from one that holds a config, an installed list and one *)
(* of the foreign files                                                    *)

Init ==
    /\ \/ /\ dirs = {}
          /\ configFile = Absent
          /\ installedFile = Absent
          /\ packsDir = NoFiles
          /\ lastInstalled = <<>>
       \/ /\ dirs = {"config", "packs"}
          /\ configFile = to_string_pretty(SerConfig(Config1))
          /\ installedFile = to_string_pretty(SerStrings(<<"p1", "gone">>))
          /\ \E n \in DOMAIN ForeignFiles :
                 packsDir = [m \in {n} |-> ForeignFiles[m]]
          /\ lastInstalled = << <<"p1", "gone">> >>
    /\ companionFile = Absent
    /\ ret = NoRet
    /\ procs = NoProcs
    /\ input = NoInput

Next ==
    \/ LoadPacks
    \/ SavePack(StorePacks)
    \/ DeletePack(DeleteIds)

Spec == Init /\ [][Next]_vars

-----------------------------------------------------------------------------
(* The settings: the config and the installed list, with save_pack and     *)
(* delete_pack running in between                                          *)

InitSettings ==
    /\ dirs \in {{}, {"config", "packs"}}
    /\ configFile \in
           IF dirs = {} THEN {Absent} ELSE {Absent} \cup ForeignConfigs
    /\ installedFile \in
           IF dirs = {} THEN {Absent} ELSE {Absent, [raw |-> "not json"]}
    /\ packsDir = NoFiles
    /\ lastInstalled = <<>>
    /\ companionFile = Absent
    /\ ret = NoRet
    /\ procs = NoProcs
    /\ input = NoInput

NextSettings ==
    \/ LoadConfig
    \/ SaveConfig
    \/ LoadInstalled
    \/ SaveInstalled
    \/ SavePack(FewPacks)
    \/ DeletePack(FewIds)

SpecSettings == InitSettings /\ [][NextSettings]_vars

-----------------------------------------------------------------------------
(* export_pack and import_pack_json *)

export_pack(pack) == to_string_pretty(SerRulePack(pack))

import_pack_json(json) == from_str_RulePack(json)

\* the strings a field is drawn from: the empty one and one with a quote
Blank == {"", "a\"b"}

\* the packs given to export_pack
CodecPacks ==
    {[id |-> id, name |-> e, description |-> e, author |-> e, version |-> e,
      system_prompt |-> sp, rules |-> rules, memos |-> memos, tags |-> tags,
      created_at |-> e, updated_at |-> up] :
        id \in {"", "p1"}, e \in Blank, sp \in {"", "S"},
        up \in {"", "2024-01-02"},
        rules \in SeqsUpTo({Rule1, Rule2}, MaxRules),
        memos \in SeqsUpTo({Memo1}, MaxRules),
        tags \in SeqsUpTo({"t", "u"}, MaxRules)}

\* texts given to import_pack_json that no export_pack produced: not JSON, a
\* pack without its optional fields, a pack without its rules
CodecTexts ==
    {[raw |-> "not json"],
     to_string_pretty(JObj([id |-> JStr("p1"), name |-> JStr(""),
         description |-> JStr(""), author |-> JStr(""), version |-> JStr(""),
         system_prompt |-> JStr(""), rules |-> JArr(<<>>)])),
     to_string_pretty(JObj([id |-> JStr("p1"), name |-> JStr(""),
         description |-> JStr(""), author |-> JStr(""), version |-> JStr(""),
         system_prompt |-> JStr("")]))}

ExportPack ==
    /\ ret' = [op |-> "export_pack", out |-> export_pack(input)]
    /\ UNCHANGED <<dirs, configFile, installedFile, packsDir, companionFile,
                   lastInstalled, procs, input>>

\* the front end passes a text it got from export_pack or any other text
ImportPackJson ==
    \E json \in CodecTexts \cup
                (IF ret.op = "export_pack" THEN {ret.out} ELSE {}) :
        /\ ret' = [op |-> "import_pack_json", json |-> json,
                   out |-> import_pack_json(json)]
        /\ UNCHANGED <<dirs, configFile, installedFile, packsDir,
                       companionFile, lastInstalled, procs, input>>

InitCodec ==
    /\ input \in CodecPacks
    /\ dirs = {}
    /\ configFile = Absent
    /\ installedFile = Absent
    /\ packsDir = NoFiles
    /\ companionFile = Absent
    /\ lastInstalled = <<>>
    /\ ret = NoRet
    /\ procs = NoProcs

NextCodec ==
    \/ ExportPack
    \/ ImportPackJson

SpecCodec == InitCodec /\ [][NextCodec]_vars

-----------------------------------------------------------------------------
(* export_for_memochat and import_from_memochat *)

export_for_memochat(pack) ==
    to_string_pretty(JObj(
        [systemPrompt |-> JStr(pack.system_prompt),
         rules |-> JArr([i \in 1..Len(pack.rules) |->
             JObj([title |-> JStr(pack.rules[i].title),
                   updateRule |-> JStr(pack.rules[i].update_rule)])])]))

\* the closure of the filter_map over val["rules"], were it to read the keys
\* export_for_memochat writes
RuleOfExport(r) ==
    IF IsStr(Index(r, "title")) /\ IsStr(Index(r, "updateRule"))
    THEN [ok |-> TRUE,
          val |-> [title |-> Index(r, "title").str,
                   update_rule |-> Index(r, "updateRule").str]]
    ELSE [ok |-> FALSE]

\* the closure of the filter_map over val["rules"]: as_str()? gives up on the
\* element when the key is absent or not a string
RuleOfExternal(r) ==
    IF IsStr(Index(r, "description")) /\ IsStr(Index(r, "update_rule"))
    THEN [ok |-> TRUE,
          val |-> [title |-> Index(r, "description").str,
                   update_rule |-> Index(r, "update_rule").str]]
    ELSE [ok |-> FALSE]

\* the closure of the filter_map over val["memos"]
MemoOfExternal(m) ==
    IF IsStr(Index(m, "title")) /\ IsStr(Index(m, "content"))
    THEN [ok |-> TRUE,
          val |-> [title |-> Index(m, "title").str,
                   content |-> Index(m, "content").str]]
    ELSE [ok |-> FALSE]

\* the rules, were one malformed element to void the whole array
collect_rules_all_or_nothing(v) ==
    IF IsArr(v) /\ AllOk([i \in 1..Len(v.arr) |-> RuleOfExternal(v.arr[i])])
    THEN SelectOk([i \in 1..Len(v.arr) |-> RuleOfExternal(v.arr[i])])
    ELSE <<>>

\* val["rules"].as_array().map(|arr| arr.iter().filter_map(..).collect())
\*     .unwrap_or_default()
collect_rules(v) ==
    IF IsArr(v)
    THEN SelectOk([i \in 1..Len(v.arr) |-> RuleOfExternal(v.arr[i])])
    ELSE <<>>

\* val["memos"].as_array().map(|arr| arr.iter().filter_map(..).collect())
\*     .unwrap_or_default()
collect_memos(v) ==
    IF IsArr(v)
    THEN SelectOk([i \in 1..Len(v.arr) |-> MemoOfExternal(v.arr[i])])
    ELSE <<>>

\* chrono::Local::now() read at ms milliseconds after the epoch, formatted
\* "%Y-%m-%dT%H:%M:%S" (local time taken as UTC, ms below ten seconds)
FormatLocal(ms) == "1970-01-01T00:00:0" \o ToString(ms \div 1000)

\* the instants at which the clock is read, in milliseconds since the epoch
Instants == {k * 500 : k \in 0..MaxClock}

\* import_from_memochat, the clock read at t1 for now and at t2 for the id
import_from_memochat(file, t1, t2) ==
    IF file = Absent
    THEN [ok |-> FALSE, err |-> "MemoChat memo-pack.json not found"]
    ELSE IF ~from_str(file).ok
    THEN [ok |-> FALSE, err |-> "Failed to parse memo-pack.json"]
    ELSE [ok |-> TRUE,
          val |-> [id |-> "imported_" \o ToString(t2),
                   name |-> "Imported from MemoChat",
                   description |-> "Current memo pack from MemoChat",
                   author |-> "",
                   version |-> "1.0.0",
                   system_prompt |-> "",
                   rules |-> collect_rules(Index(from_str(file).val, "rules")),
                   memos |-> collect_memos(Index(from_str(file).val, "memos")),
                   tags |-> <<"imported", "memochat">>,
                   created_at |-> FormatLocal(t1),
                   updated_at |-> FormatLocal(t1)]]

\* the packs given to export_for_memochat
InteropPacks ==
    {[MkPack("p1", "") EXCEPT !.system_prompt = sp, !.rules = rules] :
        sp \in {"", "S"}, rules \in SeqsUpTo({Rule1, Rule2}, MaxRules)}

\* elements of the rules array of a memo-pack.json: two well formed, one
\* without update_rule, one whose update_rule is no string, one of the shape
\* export_for_memochat writes, one that is no object
ExternalRules ==
    {JObj([description |-> JStr("T"), update_rule |-> JStr("U")]),
     JObj([description |-> JStr(""), update_rule |-> JStr("U2"),
           extra |-> JBool(TRUE)]),
     JObj([description |-> JStr("X")]),
     JObj([description |-> JStr("Y"), update_rule |-> JNull]),
     JObj([title |-> JStr("T"), updateRule |-> JStr("U")]),
     JStr("rule")}

ExternalMemos ==
    JArr(<<JObj([title |-> JStr("M"), content |-> JStr("C")]),
           JObj([title |-> JStr("M2")])>>)

\* memo-pack.json as MemoChat or a user can have left it
CompanionTexts ==
    {to_string_pretty(JObj([rules |-> JArr(q), memos |-> ExternalMemos])) :
        q \in SeqsUpTo(ExternalRules, MaxRules)}
    \cup {to_string_pretty(JObj([rules |-> JArr(q)])) :
        q \in SeqsUpTo(ExternalRules, 1)}
    \cup {to_string_pretty(JObj([memos |-> ExternalMemos])),
          to_string_pretty(JObj([rules |-> JStr("none")])),
          to_string_pretty(JArr(<<>>)),
          [raw |-> "not json"], EmptyText}

ExportForMemochat ==
    /\ ret' = [op |-> "export_for_memochat", out |-> export_for_memochat(input)]
    /\ UNCHANGED <<dirs, configFile, installedFile, packsDir, companionFile,
                   lastInstalled, procs, input>>

ImportFromMemochat ==
    \E t1, t2 \in Instants :
        /\ t1 <= t2
        /\ ret' = [op |-> "import_from_memochat",
                   out |-> import_from_memochat(companionFile, t1, t2)]
        /\ UNCHANGED <<dirs, configFile, installedFile, packsDir,
                       companionFile, lastInstalled, procs, input>>

\* memo-pack.json is missing, is as MemoChat left it, or is the export of
\* the pack at hand
InitInterop ==
    /\ input \in InteropPacks
    /\ companionFile \in
           {Absent, export_for_memochat(input)} \cup CompanionTexts
    /\ dirs = {}
    /\ configFile = Absent
    /\ installedFile = Absent
    /\ packsDir = NoFiles
    /\ lastInstalled = <<>>
    /\ ret = NoRet
    /\ procs = NoProcs

NextInterop ==
    \/ ExportForMemochat
    \/ ImportFromMemochat

SpecInterop == InitInterop /\ [][NextInterop]_vars

-----------------------------------------------------------------------------
(* Two save_pack calls and a load_packs running concurrently.  Nothing in   *)
(* the commands takes a lock, so they interleave at their system calls:    *)
(* fs::write opens the file (creating or truncating it) and then writes    *)
(* the text at the start of it; load_packs lists the directory and then    *)
(* reads the entries one at a time.                                        *)

RECURSIVE SumOf(_)
\* the sum of the values of a function
SumOf(f) ==
    IF DOMAIN f = {} THEN 0
    ELSE LET k == CHOOSE k \in DOMAIN f : TRUE
         IN f[k] + SumOf([j \in DOMAIN f \ {k} |-> f[j]])

RECURSIVE JsonLen(_, _)
\* the number of bytes to_string_pretty writes for a value at nesting depth
\* d: two spaces of indentation a level, one entry a line
JsonLen(v, d) ==
    IF IsStr(v) THEN Len(v.str) + 2
    ELSE IF IsBool(v) THEN (IF v.bool THEN 4 ELSE 5)
    ELSE IF IsArr(v) THEN
        IF v.arr = <<>> THEN 2
        ELSE 1 + SumOf([i \in DOMAIN v.arr |->
                           1 + 2 * (d + 1) + JsonLen(v.arr[i], d + 1)])
               + (Len(v.arr) - 1) + 1 + 2 * d + 1
    ELSE IF IsObj(v) THEN
        IF DOMAIN v.obj = {} THEN 2
        ELSE 1 + SumOf([k \in DOMAIN v.obj |->
                           1 + 2 * (d + 1) + Len(k) + 4
                             + JsonLen(v.obj[k], d + 1)])
               + (Cardinality(DOMAIN v.obj) - 1) + 1 + 2 * d + 1
    ELSE 4

\* the size of a file in bytes
TextLen(t) ==
    IF t = Absent THEN 0
    ELSE IF "raw" \in DOMAIN t THEN Len(t.raw)
    ELSE JsonLen(t.json, 0) + t.tail

\* File::create(path): the file exists and is empty
fs_create == EmptyText

\* write_all through a descriptor positioned at the start of the file: the
\* text replaces the first bytes, what the file holds beyond them stays
write_all(file, text) ==
    IF TextLen(file) <= TextLen(text) THEN text
    ELSE [json |-> text.json, tail |-> TextLen(file) - TextLen(text)]

\* the packs the racing save_pack calls are given, all of one id: two whose
\* texts are equally long and one whose text is longer
RacePacks == {[MkPack("p1", "") EXCEPT !.name = n] : n \in {"A", "B", "CCC"}}

\* what p1.json holds before the race
PriorPack == [MkPack("p1", "2024-01-01") EXCEPT !.name = "prior"]

Savers == {"A", "B"}

\* save_pack up to File::create: the directory and the empty file exist
SaveOpen(p) ==
    /\ procs[p].pc = "start"
    /\ dirs' = get_packs_dir
    /\ packsDir' = WithFile(packsDir, PackPath(procs[p].pack.id), fs_create)
    /\ procs' = [procs EXCEPT ![p].pc = "opened"]
    /\ UNCHANGED <<configFile, installedFile, companionFile, ret,
                   lastInstalled, input>>

\* save_pack from write_all to its return
SaveWrite(p) ==
    /\ procs[p].pc = "opened"
    /\ packsDir' =
           WithFile(packsDir, PackPath(procs[p].pack.id),
                    write_all(FileAt(packsDir, PackPath(procs[p].pack.id)),
                              to_string_pretty(SerRulePack(procs[p].pack))))
    /\ procs' = [procs EXCEPT ![p].pc = "done", ![p].out = TRUE]
    /\ UNCHANGED <<dirs, configFile, installedFile, companionFile, ret,
                   lastInstalled, input>>

\* load_packs up to fs::read_dir
LoadList ==
    /\ procs["L"].pc = "start"
    /\ \E order \in Perms(DOMAIN packsDir) :
           procs' = [procs EXCEPT !["L"].pc = "reading",
                                  !["L"].entries = order]
    /\ dirs' = get_packs_dir
    /\ UNCHANGED <<configFile, installedFile, packsDir, companionFile, ret,
                   lastInstalled, input>>

\* one iteration of the loop of load_packs: the entry is read as it is now
LoadRead ==
    /\ procs["L"].pc = "reading"
    /\ procs["L"].entries # <<>>
    /\ LET name == Head(procs["L"].entries)
           e == IF name \in DOMAIN packsDir THEN ReadEntry(packsDir, name)
                ELSE [ok |-> FALSE]
       IN procs' = [procs EXCEPT
                       !["L"].entries = Tail(@),
                       !["L"].packs = IF e.ok THEN Append(@, e.val) ELSE @]
    /\ UNCHANGED <<dirs, configFile, installedFile, packsDir, companionFile,
                   ret, lastInstalled, input>>

\* load_packs from the end of its loop to its return
LoadSort ==
    /\ procs["L"].pc = "reading"
    /\ procs["L"].entries = <<>>
    /\ procs' = [procs EXCEPT !["L"].pc = "done",
                              !["L"].out = sort_by(procs["L"].packs)]
    /\ UNCHANGED <<dirs, configFile, installedFile, packsDir, companionFile,
                   ret, lastInstalled, input>>

\* two save_pack calls with different packs of one id, and a load_packs that
\* runs with them or has returned before they start
InitRace ==
    /\ dirs = {"config", "packs"}
    /\ configFile = Absent
    /\ installedFile = Absent
    /\ packsDir \in
           {[n \in S |-> IF n = "p1.json"
                         THEN to_string_pretty(SerRulePack(PriorPack))
                         ELSE ForeignFiles[n]] :
               S \in SUBSET {"p1.json", "notes.txt"}}
    /\ companionFile = Absent
    /\ ret = NoRet
    /\ lastInstalled = <<>>
    /\ input = NoInput
    /\ \E a, b \in RacePacks, lpc \in {"start", "done"} :
        /\ a # b
        /\ procs = [p \in Savers \cup {"L"} |->
                      IF p = "L"
                      THEN [pc |-> lpc, entries |-> <<>>, packs |-> <<>>,
                            out |-> <<>>]
                      ELSE [pc |-> "start", pack |-> IF p = "A" THEN a ELSE b,
                            out |-> FALSE]]

NextRace ==
    \/ \E p \in Savers : SaveOpen(p)
    \/ \E p \in Savers : SaveWrite(p)
    \/ LoadList
    \/ LoadRead
    \/ LoadSort

SpecRace == InitRace /\ [][NextRace]_vars

-----------------------------------------------------------------------------
(* Properties of the pack store *)

\* every file of the packs directory but the named one is as it was
OthersSame(name) ==
    \A n \in (DOMAIN packsDir \cup DOMAIN packsDir') \ {name} :
        FileAt(packsDir', n) = FileAt(packsDir, n)

\* the .json files of the packs directory that hold a RulePack
PackFiles ==
    {n \in DOMAIN packsDir :
        HasJsonExtension(n) /\ from_str_RulePack(packsDir[n]).ok}

Range(q) == {q[i] : i \in 1..Len(q)}

\* C2 as stated: delete_pack of an id without a file returns false and
\* changes nothing; delete_pack of an id with a file always returns true,
\* the file is gone afterwards and every other file is unchanged.
C2_DeleteExistingReturnsTrue ==
    [][ret'.op = "delete_pack" =>
         IF PackPath(ret'.id) \in DOMAIN packsDir
         THEN /\ ret'.out = TRUE
              /\ PackPath(ret'.id) \notin DOMAIN packsDir'
              /\ OthersSame(PackPath(ret'.id))
         ELSE ret'.out = FALSE /\ packsDir' = packsDir]_vars

\* C2 amended: delete_pack of an id without a file returns false and changes
\* nothing; delete_pack of an id with a file returns true exactly when the
\* removal succeeded, the file then being gone and every other file
\* unchanged, and returns false with the directory unchanged when it failed.
C2_DeleteSemantics ==
    [][ret'.op = "delete_pack" =>
         IF PackPath(ret'.id) \in DOMAIN packsDir
         THEN \/ /\ ret'.out = TRUE
                 /\ PackPath(ret'.id) \notin DOMAIN packsDir'
                 /\ OthersSame(PackPath(ret'.id))
              \/ /\ ret'.out = FALSE
                 /\ packsDir' = packsDir
         ELSE ret'.out = FALSE /\ packsDir' = packsDir]_vars

\* a delete_pack returned true and left other files behind
C2_Witness ==
    /\ ret.op = "delete_pack" /\ ret.out
    /\ PackPath(ret.id) \notin DOMAIN packsDir
    /\ Cardinality(DOMAIN packsDir) >= 2

C4_ListingOrder ==
    ret.op = "load_packs" =>
        /\ \A i \in 1..(Len(ret.out) - 1) :
               StrCmp(ret.out[i].updated_at, ret.out[i + 1].updated_at) >= 0
        /\ \A i, j \in 1..Len(ret.out) :
               i < j /\ ret.out[i].updated_at = "" =>
                   ret.out[j].updated_at = ""
        /\ Len(ret.out) = Len(ret.parsed)
        /\ \A st \in Stamps :
               SelectSeq(ret.out, LAMBDA pk : pk.updated_at = st)
                   = SelectSeq(ret.parsed, LAMBDA pk : pk.updated_at = st)

\* load_packs reordered three packs, two of one timestamp and one without
C4_Witness ==
    /\ ret.op = "load_packs" /\ Len(ret.out) = 3
    /\ ret.out # ret.parsed
    /\ ret.out[1].updated_at = ret.out[2].updated_at
    /\ ret.out[3].updated_at = ""

-----------------------------------------------------------------------------
(* Properties of the settings *)

RequiredConfigKeys == {"api_key", "model_id", "base_url"}

\* C6: load_config returns the all-default Config when config.json is
\* missing, when it is not JSON and when it is a JSON object that lacks a
\* required field (such as one holding only api_key); when it is a JSON
\* object with the three required strings and no optional field, the three
\* are kept and the optional fields take their defaults.
C6_ConfigDefaulting ==
    ret.op = "load_config" =>
        /\ configFile = Absent => ret.out = DefaultConfig
        /\ "raw" \in DOMAIN configFile => ret.out = DefaultConfig
        /\ configFile = to_string_pretty(JObj([api_key |-> JStr("x")])) =>
               ret.out = DefaultConfig
        /\ ("json" \in DOMAIN configFile /\ IsObj(configFile.json)
               /\ RequiredConfigKeys \ DOMAIN configFile.json.obj # {}) =>
               ret.out = DefaultConfig
        /\ ("json" \in DOMAIN configFile /\ IsObj(configFile.json)
               /\ DOMAIN configFile.json.obj = RequiredConfigKeys
               /\ \A k \in RequiredConfigKeys : IsStr(configFile.json.obj[k])) =>
               ret.out = [api_key |-> configFile.json.obj.api_key.str,
                          model_id |-> configFile.json.obj.model_id.str,
                          base_url |-> configFile.json.obj.base_url.str,
                          reasoning_enabled |-> FALSE, channels_json |-> ""]

\* load_config read a config.json that holds only api_key
C6_Witness ==
    /\ ret.op = "load_config"
    /\ configFile = to_string_pretty(JObj([api_key |-> JStr("x")]))
    /\ ret.out = DefaultConfig

\* C7: load_installed returns the id list of the most recent successful
\* save_installed as it was given, and the empty list when there was none or
\* installed.json does not parse; no step other than save_installed changes
\* installed.json.
C7_InstalledVerbatim ==
    /\ [](ret.op = "load_installed" =>
            ret.out = IF lastInstalled = <<>>
                         \/ installedFile = Absent
                         \/ ~from_str_Strings(installedFile).ok
                      THEN <<>> ELSE lastInstalled[1])
    /\ [][installedFile' # installedFile => ret'.op = "save_installed"]_vars

\* the installed list names p1 twice although no p1 is stored, a successful
\* save_pack of p1 and a delete_pack of it having run since it was saved
C7_Witness ==
    /\ ret.op = "load_installed"
    /\ ret.out = <<"p1", "p1">>
    /\ PackPath("p1") \notin DOMAIN packsDir

-----------------------------------------------------------------------------
(* Properties of the conversions *)

\* C1: importing the text export_pack gave for a pack succeeds and returns
\* that pack, every field equal and rules, memos and tags in their order.
C1_RoundTrip ==
    ret.op = "import_pack_json" /\ ret.json = export_pack(input) =>
        ret.out = [ok |-> TRUE, val |-> input]

\* the export of a pack with an empty id, two different rules, memos and two
\* tags was imported
C1_Witness ==
    /\ ret.op = "import_pack_json" /\ ret.json = export_pack(input)
    /\ input.id = "" /\ input.memos # <<>>
    /\ Len(input.rules) = 2 /\ input.rules[1] # input.rules[2]
    /\ Len(input.tags) = 2 /\ input.tags[1] # input.tags[2]

\* the value of memo-pack.json, and its rules array (empty when there is none)
CompanionValue == companionFile.json
CompanionRules ==
    IF IsObj(CompanionValue) /\ "rules" \in DOMAIN CompanionValue.obj
       /\ IsArr(CompanionValue.obj.rules)
    THEN CompanionValue.obj.rules.arr ELSE <<>>

\* an element of the external rules array that carries both required strings
WellFormedRule(r) ==
    /\ IsObj(r)
    /\ "description" \in DOMAIN r.obj /\ IsStr(r.obj.description)
    /\ "update_rule" \in DOMAIN r.obj /\ IsStr(r.obj.update_rule)

MemoRuleOf(r) ==
    [title |-> r.obj.description.str, update_rule |-> r.obj.update_rule.str]

\* C8 as stated: importing the text export_for_memochat gave for a pack
\* yields that pack's system_prompt and one MemoRule per rule in order, tags
\* containing "imported" and an id starting with "imported_".
C8_ImportOfExport ==
    (ret.op = "import_from_memochat"
        /\ companionFile = export_for_memochat(input)) =>
        /\ ret.out.ok
        /\ ret.out.val.system_prompt = input.system_prompt
        /\ ret.out.val.rules = input.rules
        /\ "imported" \in Range(ret.out.val.tags)
        /\ SubSeq(ret.out.val.id, 1, 9) = "imported_"

\* C8 amended: importing a memo-pack.json that is JSON yields an empty
\* system_prompt, tags containing "imported" and an id starting with
\* "imported_"; when its rules are all of the shape {description,
\* update_rule} it yields one MemoRule {title: description, update_rule} per
\* element in order; from the text export_for_memochat gave it yields no rule.
C8_ImportOfMemoPack ==
    (ret.op = "import_from_memochat" /\ "json" \in DOMAIN companionFile) =>
        /\ ret.out.ok
        /\ ret.out.val.system_prompt = ""
        /\ "imported" \in Range(ret.out.val.tags)
        /\ SubSeq(ret.out.val.id, 1, 9) = "imported_"
        /\ (\A i \in 1..Len(CompanionRules) :
                WellFormedRule(CompanionRules[i])) =>
               ret.out.val.rules =
                   [i \in 1..Len(CompanionRules) |->
                       MemoRuleOf(CompanionRules[i])]
        /\ companionFile = export_for_memochat(input) =>
               ret.out.val.rules = <<>>

\* a memo-pack.json of two different well-formed rules was imported
C8_Witness ==
    /\ ret.op = "import_from_memochat" /\ "json" \in DOMAIN companionFile
    /\ Len(CompanionRules) = 2 /\ CompanionRules[1] # CompanionRules[2]
    /\ \A i \in 1..2 : WellFormedRule(CompanionRules[i])
    /\ Len(ret.out.val.rules) = 2

\* C9: when memo-pack.json is JSON the import succeeds and its rules are
\* the elements of the external rules array that carry both required
\* strings, in their order; without a rules array there are no rules.
C9_PartialElements ==
    (ret.op = "import_from_memochat" /\ "json" \in DOMAIN companionFile) =>
        /\ ret.out.ok
        /\ ret.out.val.rules =
               [i \in 1..Len(SelectSeq(CompanionRules, WellFormedRule)) |->
                   MemoRuleOf(SelectSeq(CompanionRules, WellFormedRule)[i])]

\* a rules array of a well-formed element and one without update_rule gave
\* exactly one rule
C9_Witness ==
    /\ ret.op = "import_from_memochat" /\ "json" \in DOMAIN companionFile
    /\ Len(CompanionRules) = 2
    /\ WellFormedRule(CompanionRules[1])
    /\ IsObj(CompanionRules[2])
    /\ "update_rule" \notin DOMAIN CompanionRules[2].obj
    /\ Len(ret.out.val.rules) = 1

-----------------------------------------------------------------------------
(* Properties of the race *)

\* the packs a load_packs returned under the id the savers write
LoadedOfId == SelectSeq(procs["L"].out, LAMBDA pk : pk.id = "p1")

\* C10: once both save_pack calls have returned, p1.json reads back as the
\* pack of one of the two calls in full, and a load_packs that ran with them
\* returned under that id nothing but the prior pack or one of the two packs.
C10_LastWriterWins ==
    /\ (\A p \in Savers : procs[p].pc = "done") =>
           \E p \in Savers :
               ReadRulePack(FileAt(packsDir, "p1.json"))
                   = [ok |-> TRUE, val |-> procs[p].pack]
    /\ procs["L"].pc = "done" =>
           Range(LoadedOfId) \subseteq
               {PriorPack} \cup {procs[p].pack : p \in Savers}

====
